---- MODULE Spec2Model ----
(***************************************************************************)
(* The container handlers of pkg/serviceapi/handler_containers.go: the     *)
(* Docker-compatible endpoints /containers/{name}/json, kill, wait, stop,  *)
(* pause, unpause and restart, served over a libpod runtime.               *)
(*                                                                         *)
(* A request is served by one goroutine.  The handlers share no state of   *)
(* their own; they meet only in the runtime.  A step of a request is one   *)
(* runtime call together with the handler's local code up to the next      *)
(* runtime call (or up to the response), so that requests interleave       *)
(* exactly where the runtime can observe them.                             *)
(*                                                                         *)
(* Go strings that the handlers parse (the query parameters) are sequences *)
(* of one-character strings; texts that are only built and handed on       *)
(* (messages, error texts) are TLA+ strings.                               *)
(***************************************************************************)
EXTENDS Integers, Sequences, FiniteSets, TLC

VARIABLES
    cstate,   \* the runtime's record of the container: a lifecycle state, or Absent
    reqs      \* the requests in flight, per serving goroutine

vars == <<cstate, reqs>>

(***************************************************************************)
(* Bounds of the model.                                                    *)
(***************************************************************************)
\* the timeouts a client sends as t are "0" .. MaxT (and a few fixed others)
MaxT == 1
\* a container exits with a code in 0 .. MaxExit
MaxExit == 1

\* the goroutines serving requests at the same time: g1 serves a client that
\* sends every request of Inputs, g2 a second client whose requests carry no
\* parameters
Reqs == {"g1", "g2"}
\* the one container reference the clients address; it may or may not resolve
Name == <<"c", "1">>

(***************************************************************************)
(* Texts.                                                                  *)
(***************************************************************************)
RECURSIVE Str(_)
\* a parsed Go string as a text (the %s of a format)
Str(cs) == IF cs = <<>> THEN "" ELSE cs[1] \o Str(Tail(cs))

\* fmt.Sprintf(format, arg) with a single %s, given as the text before and after it
Sprintf(before, arg, after) == before \o arg \o after

(***************************************************************************)
(* Errors (github.com/pkg/errors): an error is the sequence of its         *)
(* messages, outermost first; nil is the empty sequence.                   *)
(***************************************************************************)
Nil == <<>>

\* errors.New(text)
New(text) == <<text>>

\* errors.Wrapf(err, text): nil when err is nil
Wrapf(err, text) == IF err = Nil THEN Nil ELSE <<text>> \o err

RECURSIVE ErrorText(_)
\* err.Error(): the messages joined by ": "
ErrorText(err) ==
    IF Len(err) = 1 THEN err[1] ELSE err[1] \o ": " \o ErrorText(Tail(err))

(***************************************************************************)
(* strconv.ParseBool, strconv.Atoi, uint(), signal.ParseSignal             *)
(***************************************************************************)
TrueStrs ==
    { <<"1">>, <<"t">>, <<"T">>, <<"T","R","U","E">>, <<"t","r","u","e">>,
      <<"T","r","u","e">> }
FalseStrs ==
    { <<"0">>, <<"f">>, <<"F">>, <<"F","A","L","S","E">>,
      <<"f","a","l","s","e">>, <<"F","a","l","s","e">> }

\* strconv.ParseBool(s): (value, error)
ParseBool(s) ==
    IF s \in TrueStrs THEN [val |-> TRUE, err |-> Nil]
    ELSE IF s \in FalseStrs THEN [val |-> FALSE, err |-> Nil]
    ELSE [val |-> FALSE,
          err |-> New(Sprintf("strconv.ParseBool: parsing \"", Str(s),
                              "\": invalid syntax"))]

DigitVal ==
    [c \in {"0","1","2","3","4","5","6","7","8","9"} |->
        CASE c = "0" -> 0 [] c = "1" -> 1 [] c = "2" -> 2 [] c = "3" -> 3
          [] c = "4" -> 4 [] c = "5" -> 5 [] c = "6" -> 6 [] c = "7" -> 7
          [] c = "8" -> 8 [] c = "9" -> 9]

RECURSIVE DecValue(_)
\* the value of a non-empty sequence of decimal digits
DecValue(ds) ==
    IF Len(ds) = 1 THEN DigitVal[ds[1]]
    ELSE 10 * DecValue(SubSeq(ds, 1, Len(ds) - 1)) + DigitVal[ds[Len(ds)]]

\* strconv.Atoi(s): (value, error).  An optional sign, then decimal digits.
\* (The range error of a number beyond 64 bits needs a string longer than
\* any the clients of this model send.)
Atoi(s) ==
    LET signed == Len(s) > 0 /\ s[1] \in {"+", "-"}
        ds     == IF signed THEN Tail(s) ELSE s
        bad    == ds = <<>> \/ \E k \in 1..Len(ds) : ds[k] \notin DOMAIN DigitVal
    IN  IF bad
        THEN [val |-> 0,
              err |-> New(Sprintf("strconv.Atoi: parsing \"", Str(s),
                                  "\": invalid syntax"))]
        ELSE [val |-> IF s[1] = "-" THEN 0 - DecValue(ds) ELSE DecValue(ds),
              err |-> Nil]

\* The conversion uint(x) keeps x modulo the word.  Go's uint has 32 or 64
\* bits; the model's integers have 32, so the model's word has 16: what the
\* conversion does to a negative number is the same, x + 2^w.
UintModulus == 2^16
Uint(x) == x % UintModulus

Lower == <<"a","b","c","d","e","f","g","h","i","j","k","l","m",
           "n","o","p","q","r","s","t","u","v","w","x","y","z">>
Upper == <<"A","B","C","D","E","F","G","H","I","J","K","L","M",
           "N","O","P","Q","R","S","T","U","V","W","X","Y","Z">>

\* strings.ToUpper(s)
ToUpper(s) ==
    [k \in 1..Len(s) |->
        IF \E j \in 1..26 : Lower[j] = s[k]
        THEN Upper[CHOOSE j \in 1..26 : Lower[j] = s[k]]
        ELSE s[k]]

\* strings.TrimPrefix(s, prefix)
TrimPrefix(s, prefix) ==
    IF Len(s) >= Len(prefix) /\ SubSeq(s, 1, Len(prefix)) = prefix
    THEN SubSeq(s, Len(prefix) + 1, Len(s))
    ELSE s

\* signal.SignalMap, the entries the clients of this model name
SignalMap ==
    [n \in {<<"K","I","L","L">>, <<"T","E","R","M">>} |->
        IF n = <<"K","I","L","L">> THEN 9 ELSE 15]

\* syscall.SIGKILL
SIGKILL == 9

\* signal.ParseSignal(rawSignal): (signal, error).  A non-zero number is the
\* signal of that number; otherwise the name, in any case, with or without
\* the prefix SIG, is looked up.
ParseSignal(rawSignal) ==
    LET n    == Atoi(rawSignal)
        name == TrimPrefix(ToUpper(rawSignal), <<"S","I","G">>)
        bad  == [val |-> 0 - 1,
                 err |-> New(Sprintf("Invalid signal: ", Str(rawSignal), ""))]
    IN  IF n.err = Nil
        THEN IF n.val = 0 THEN bad ELSE [val |-> n.val, err |-> Nil]
        ELSE IF name \in DOMAIN SignalMap
             THEN [val |-> SignalMap[name], err |-> Nil]
             ELSE bad

(***************************************************************************)
(* The runtime (libpod), as far as the handlers see it.                    *)
(***************************************************************************)
\* define.ContainerState*
States == {"Created", "Running", "Paused", "Stopped", "Exited", "Unknown"}
\* the states in which the handlers take the container to be stopped
StoppedStates == {"Stopped", "Exited"}
\* the reference resolves to no container
Absent == "Absent"

\* the error of a failed lookup, and of any other failed runtime call
ErrNoSuchCtr == New("no such container")
ErrRuntime   == New("container state improper")

\* the container's configured stop timeout, con.StopTimeout()
StopTimeout == 10

\* runtime.LookupContainer(name): the error
LookupAnswers(s) ==
    IF s = Absent THEN {[err |-> ErrNoSuchCtr]} ELSE {[err |-> Nil]}

\* con.State(): (state, error).  The read may fail; it fails once the
\* container is gone.
StateAnswers(s) ==
    (IF s = Absent THEN {} ELSE {[state |-> s, err |-> Nil]})
        \cup {[state |-> "Unknown", err |-> ErrRuntime]}

\* con.Kill, Stop, StopWithTimeout, Pause, Unpause, RestartWithTimeout and
\* runtime.RemoveContainer: the error.  Any of them may fail.
OpAnswers(s) ==
    (IF s = Absent THEN {} ELSE {[err |-> Nil]}) \cup {[err |-> ErrRuntime]}

\* con.Wait(): (exit code, error)
WaitAnswers(s) ==
    (IF s = Absent THEN {} ELSE {[code |-> c, err |-> Nil] : c \in 0..MaxExit})
        \cup {[code |-> 0 - 1, err |-> ErrRuntime]}

\* what a successful runtime call leaves the container in
Effect(fn, s) ==
    CASE fn \in {"Stop", "StopWithTimeout"} -> "Stopped"
      [] fn = "Pause" -> "Paused"
      [] fn \in {"Unpause", "RestartWithTimeout"} -> "Running"
      [] fn = "RemoveContainer" -> Absent
      [] fn = "Wait" -> IF s \in StoppedStates THEN s ELSE "Exited"
      [] OTHER -> s

\* what happens to the container without the handlers: its process exits,
\* or another client starts it
ExternalNext(s) ==
    CASE s = "Running" -> {"Exited"}
      [] s \in {"Created", "Stopped", "Exited"} -> {"Running"}
      [] OTHER -> {}

(***************************************************************************)
(* Requests and responses.                                                 *)
(***************************************************************************)
Handlers ==
    {"container", "killContainer", "waitContainer", "stopContainer",
     "pauseContainer", "unpauseContainer", "restartContainer"}

\* r.Form (url.Values): per parameter the values sent, none when the
\* parameter is not in the query
NoVal == <<>>
Val(s) == <<s>>
NoForm == [force |-> NoVal, v |-> NoVal, link |-> NoVal, signal |-> NoVal, t |-> NoVal]

\* r.Form.Get(key): the first value, the empty string when there is none
Get(vs) == IF vs = <<>> THEN <<>> ELSE vs[1]

\* the decimal digits of a number below 10
Digit(n) == <<CHOOSE c \in DOMAIN DigitVal : DigitVal[c] = n>>

\* the values the clients send; Val(<<>>) is a parameter sent with an empty
\* value (?link or ?link=)
BoolVals   == {NoVal, Val(<<>>), Val(<<"1">>), Val(<<"f","a","l","s","e">>),
               Val(<<"n","o">>)}
VolVals    == {NoVal, Val(<<>>), Val(<<"t","r","u","e">>), Val(<<"x">>)}
LinkVals   == {NoVal, Val(<<>>), Val(<<"f","a","l","s","e">>), Val(<<"1">>)}
SignalVals == {NoVal, Val(<<>>), Val(<<"1","5">>), Val(<<"s","i","g","t","e","r","m">>),
               Val(<<"0">>), Val(<<"S","I","G","F","O","O">>)}
TVals      == {NoVal, Val(<<>>), Val(<<"1","0">>), Val(<<"-","1">>), Val(<<"a","b","c">>)}
                  \cup {Val(Digit(n)) : n \in 0..MaxT}

\* the requests a client can send to a handler: (method, form)
Inputs(h) ==
    CASE h = "container" ->
            {[method |-> m, form |-> [NoForm EXCEPT !.force = f, !.v = v, !.link = l]] :
                m \in {"DELETE"}, f \in BoolVals, v \in VolVals, l \in LinkVals}
            \cup
            {[method |-> m, form |-> [NoForm EXCEPT !.force = f, !.link = l]] :
                m \in {"GET", "POST"}, f \in {NoVal, Val(<<"n","o">>)},
                l \in {NoVal, Val(<<"1">>)}}
      [] h = "killContainer" ->
            {[method |-> "POST", form |-> [NoForm EXCEPT !.signal = s]] :
                s \in SignalVals}
      [] h \in {"stopContainer", "restartContainer"} ->
            {[method |-> "POST", form |-> [NoForm EXCEPT !.t = t]] : t \in TVals}
      [] OTHER -> {[method |-> "POST", form |-> NoForm]}

\* the requests of the second client: no parameters
PlainInputs(h) ==
    {[method |-> IF h = "container" THEN "DELETE" ELSE "POST", form |-> NoForm]}

\* no response written yet
NoJSON == [StatusCode |-> 0, Error |-> [Message |-> ""]]
NoResp == [code |-> 0, msg |-> "", cause |-> Nil, ctype |-> "", body |-> <<>>,
           json |-> NoJSON]

\* Error(w, apiMessage, code, err): the response is the status, the message
\* and the cause the handler hands over
Error(apiMessage, code, err) ==
    [NoResp EXCEPT !.code = code, !.msg = apiMessage, !.cause = err]

\* w.WriteHeader(http.StatusNoContent); fmt.Fprintln(w, ""): one empty line
NoContent == [NoResp EXCEPT !.code = 204, !.body = <<"">>]

\* a goroutine with no request
Idle == [pc |-> "idle", handler |-> "", method |-> "", name |-> <<>>,
         form |-> NoForm, calls |-> <<>>, resp |-> NoResp]

\* the request ends with this response
Done(r, resp) == [r EXCEPT !.pc = "done", !.resp = resp]

\* the runtime call the request has just made, with what it returned; state
\* is the state con.State() returned and, for an operation, the state the
\* runtime held the container in when the operation was invoked
Call(fn, args, state, code, err) ==
    [fn |-> fn, args |-> args, state |-> state, code |-> code, err |-> err]
Log(r, call) == [r EXCEPT !.calls = Append(@, call)]

\* the error a logged call of fn returned last (nil when there is none): the
\* value of a handler's variable err that the call assigned
ErrOf(r, fn) ==
    LET ks == {k \in 1..Len(r.calls) : r.calls[k].fn = fn}
    IN  IF ks = {} THEN Nil
        ELSE r.calls[CHOOSE k \in ks : \A j \in ks : j <= k].err

\* the record of runtime.LookupContainer(name), of con.State() and of a
\* runtime operation, each with what it returned
LookupCall(r, lk)      == Call("LookupContainer", <<r.name>>, "", 0, lk.err)
StateCall(st)          == Call("State", <<>>, st.state, 0, st.err)
OpCall(fn, args, res)  == Call(fn, args, cstate, 0, res.err)

\* the request of goroutine i goes on as r2
Step(i, r2) == reqs' = [reqs EXCEPT ![i] = r2]

\* the runtime operation fn has returned res: the container after it
Applied(fn, res) == cstate' = IF res.err = Nil THEN Effect(fn, cstate) ELSE cstate

(***************************************************************************)
(* A request arrives: the router hands it to the handler of its path.      *)
(***************************************************************************)
Request(i) ==
    /\ reqs[i].pc = "idle"
    /\ \E h \in Handlers :
          \E in \in (IF i = "g1" THEN Inputs(h) ELSE PlainInputs(h)) :
             reqs' = [reqs EXCEPT
                        ![i] = [Idle EXCEPT !.pc = "lookup", !.handler = h,
                                            !.method = in.method, !.name = Name,
                                            !.form = in.form]]
    /\ UNCHANGED cstate

\* The handler has returned: the request and its response are gone.
Return(i) ==
    /\ reqs[i].pc = "done"
    /\ reqs' = [reqs EXCEPT ![i] = Idle]
    /\ UNCHANGED cstate

(***************************************************************************)
(* container: /containers/{name}/json                                      *)
(***************************************************************************)

\* container_args with force and vols handed over in the other order
container_args_swapped(r) ==
    << IF Len(Get(r.form.v)) > 0 THEN ParseBool(Get(r.form.v)).val ELSE FALSE,
       IF Len(Get(r.form.force)) > 0 THEN ParseBool(Get(r.form.force)).val ELSE FALSE >>

\* the force and vols handed to runtime.RemoveContainer
container_args(r) ==
    << IF Len(Get(r.form.force)) > 0 THEN ParseBool(Get(r.form.force)).val ELSE FALSE,
       IF Len(Get(r.form.v)) > 0 THEN ParseBool(Get(r.form.v)).val ELSE FALSE >>

\* container_lookup with the error of parsing v dropped (vols, _ = ...)
container_lookup_vunchecked(r, lk) ==
    LET force == Get(r.form.force)
        link  == Get(r.form.link)
    IN  IF lk.err # Nil
        THEN Done(r, Error("no such container", 404, lk.err))
        ELSE IF r.method = "DELETE"
        THEN IF Len(force) > 0 /\ ParseBool(force).err # Nil
             THEN Done(r, Error("Something went wrong.", 400,
                       Wrapf(ParseBool(force).err,
                             Sprintf("Unable to parse parameter 'force': ",
                                     Str(force), ""))))
             ELSE IF Len(link) > 0
             THEN Done(r, Error("Something went wrong.", 400,
                       New("DELETE /containers/{id}?link parameter is not supported.")))
             ELSE [r EXCEPT !.pc = "op"]
        ELSE Done(r, Error("Something went wrong.", 500,
                  New(Sprintf("", r.method, " is not implemented for containers"))))


\* container_lookup with force parsed before the verb is looked at
container_lookup_parsefirst(r, lk) ==
    LET force == Get(r.form.force)
        v     == Get(r.form.v)
        link  == Get(r.form.link)
    IN  IF lk.err # Nil
        THEN Done(r, Error("no such container", 404, lk.err))
        ELSE IF Len(force) > 0 /\ ParseBool(force).err # Nil
        THEN Done(r, Error("Something went wrong.", 400,
                  Wrapf(ParseBool(force).err,
                        Sprintf("Unable to parse parameter 'force': ",
                                Str(force), ""))))
        ELSE IF r.method = "DELETE"
        THEN IF Len(v) > 0 /\ ParseBool(v).err # Nil
             THEN Done(r, Error("Something went wrong.", 400,
                       Wrapf(ParseBool(v).err,
                             Sprintf("Unable to parse parameter 'v': ", Str(v), ""))))
             ELSE IF Len(link) > 0
             THEN Done(r, Error("Something went wrong.", 400,
                       New("DELETE /containers/{id}?link parameter is not supported.")))
             ELSE [r EXCEPT !.pc = "op"]
        ELSE Done(r, Error("Something went wrong.", 500,
                  New(Sprintf("", r.method, " is not implemented for containers"))))

\* after the lookup: the verb, then force, v and link
container_lookup(r, lk) ==
    LET force == Get(r.form.force)
        v     == Get(r.form.v)
        link  == Get(r.form.link)
    IN  IF lk.err # Nil
        THEN Done(r, Error("no such container", 404, lk.err))
        ELSE IF r.method = "DELETE"
        THEN IF Len(force) > 0 /\ ParseBool(force).err # Nil
             THEN Done(r, Error("Something went wrong.", 400,
                       Wrapf(ParseBool(force).err,
                             Sprintf("Unable to parse parameter 'force': ",
                                     Str(force), ""))))
             ELSE IF Len(v) > 0 /\ ParseBool(v).err # Nil
             THEN Done(r, Error("Something went wrong.", 400,
                       Wrapf(ParseBool(v).err,
                             Sprintf("Unable to parse parameter 'v': ", Str(v), ""))))
             ELSE IF Len(link) > 0
             THEN Done(r, Error("Something went wrong.", 400,
                       New("DELETE /containers/{id}?link parameter is not supported.")))
             ELSE [r EXCEPT !.pc = "op"]
        ELSE Done(r, Error("Something went wrong.", 500,
                  New(Sprintf("", r.method, " is not implemented for containers"))))

\* after runtime.RemoveContainer
container_remove(r, res) ==
    IF res.err # Nil
    THEN Done(r, Error("Something went wrong.", 500, res.err))
    ELSE Done(r, NoContent)

container(i) ==
    /\ reqs[i].handler = "container"
    /\ \/ /\ reqs[i].pc = "lookup"
          /\ \E lk \in LookupAnswers(cstate) :
                Step(i, container_lookup(Log(reqs[i], LookupCall(reqs[i], lk)), lk))
          /\ UNCHANGED cstate
       \/ /\ reqs[i].pc = "op"
          /\ \E res \in OpAnswers(cstate) :
                /\ Step(i, container_remove(
                       Log(reqs[i], OpCall("RemoveContainer",
                                           container_args(reqs[i]), res)),
                       res))
                /\ Applied("RemoveContainer", res)

(***************************************************************************)
(* killContainer: /containers/{name}/kill                                  *)
(***************************************************************************)

\* killContainer_args with the parsed signal never assigned to sig
killContainer_args_sigkill(r) == << Uint(SIGKILL) >>

\* the signal handed to con.Kill, as uint(sig)
killContainer_args(r) ==
    << Uint(IF Len(Get(r.form.signal)) > 0 THEN ParseSignal(Get(r.form.signal)).val
            ELSE SIGKILL) >>

\* killContainer_lookup with the return after the 404 forgotten
killContainer_lookup_noreturn(r, lk) ==
    IF lk.err # Nil
    THEN [r EXCEPT !.pc = "state",
                   !.resp = Error(Sprintf("No such container: ", Str(r.name), ""), 404,
                                  lk.err)]
    ELSE [r EXCEPT !.pc = "state"]

killContainer_lookup(r, lk) ==
    IF lk.err # Nil
    THEN Done(r, Error(Sprintf("No such container: ", Str(r.name), ""), 404, lk.err))
    ELSE [r EXCEPT !.pc = "state"]

\* killContainer_state with a gate that knows Stopped only
killContainer_state_stoppedonly(r, st) ==
    IF st.err # Nil
    THEN Done(r, Error("Something went wrong.", 500, st.err))
    ELSE IF st.state = "Stopped"
    THEN Done(r, Error(Sprintf("Container ", Str(r.name), " is not running"), 409,
              New(Sprintf("Cannot kill container ", Str(r.name),
                          ", it is not running"))))
    ELSE IF Len(Get(r.form.signal)) > 0 /\ ParseSignal(Get(r.form.signal)).err # Nil
    THEN Done(r, Error("Something went wrong.", 400,
              Wrapf(ParseSignal(Get(r.form.signal)).err,
                    Sprintf("unable to parse signal ", Str(Get(r.form.signal)), ""))))
    ELSE [r EXCEPT !.pc = "op"]


\* killContainer_state with the signal parsed before the state is looked at
killContainer_state_parsefirst(r, st) ==
    IF Len(Get(r.form.signal)) > 0 /\ ParseSignal(Get(r.form.signal)).err # Nil
    THEN Done(r, Error("Something went wrong.", 400,
              Wrapf(ParseSignal(Get(r.form.signal)).err,
                    Sprintf("unable to parse signal ", Str(Get(r.form.signal)), ""))))
    ELSE IF st.err # Nil
    THEN Done(r, Error("Something went wrong.", 500, st.err))
    ELSE IF st.state = "Stopped" \/ st.state = "Exited"
    THEN Done(r, Error(Sprintf("Container ", Str(r.name), " is not running"), 409,
              New(Sprintf("Cannot kill container ", Str(r.name),
                          ", it is not running"))))
    ELSE [r EXCEPT !.pc = "op"]

\* after the state read: the gate, then the signal
killContainer_state(r, st) ==
    IF st.err # Nil
    THEN Done(r, Error("Something went wrong.", 500, st.err))
    ELSE IF st.state = "Stopped" \/ st.state = "Exited"
    THEN Done(r, Error(Sprintf("Container ", Str(r.name), " is not running"), 409,
              New(Sprintf("Cannot kill container ", Str(r.name),
                          ", it is not running"))))
    ELSE IF Len(Get(r.form.signal)) > 0 /\ ParseSignal(Get(r.form.signal)).err # Nil
    THEN Done(r, Error("Something went wrong.", 400,
              Wrapf(ParseSignal(Get(r.form.signal)).err,
                    Sprintf("unable to parse signal ", Str(Get(r.form.signal)), ""))))
    ELSE [r EXCEPT !.pc = "op"]


\* killContainer_kill taking a failed Kill for a container that is not running
killContainer_kill_conflict(r, res) ==
    IF res.err # Nil
    THEN Done(r, Error(Sprintf("Container ", Str(r.name), " is not running"), 409,
              Wrapf(res.err, Sprintf("unable to kill container ", Str(r.name), ""))))
    ELSE Done(r, NoContent)

\* after con.Kill
killContainer_kill(r, res) ==
    IF res.err # Nil
    THEN Done(r, Error("Something went wrong.", 500,
              Wrapf(res.err, Sprintf("unable to kill container ", Str(r.name), ""))))
    ELSE Done(r, NoContent)

killContainer(i) ==
    /\ reqs[i].handler = "killContainer"
    /\ \/ /\ reqs[i].pc = "lookup"
          /\ \E lk \in LookupAnswers(cstate) :
                Step(i, killContainer_lookup(Log(reqs[i], LookupCall(reqs[i], lk)), lk))
          /\ UNCHANGED cstate
       \/ /\ reqs[i].pc = "state"
          /\ \E st \in StateAnswers(cstate) :
                Step(i, killContainer_state(Log(reqs[i], StateCall(st)), st))
          /\ UNCHANGED cstate
       \/ /\ reqs[i].pc = "op"
          /\ \E res \in OpAnswers(cstate) :
                /\ Step(i, killContainer_kill(
                       Log(reqs[i], OpCall("Kill",
                                           killContainer_args(reqs[i]), res)),
                       res))
                /\ Applied("Kill", res)

(***************************************************************************)
(* waitContainer: /containers/{name}/wait                                  *)
(***************************************************************************)
\* int(exitCode): an int32 widened, its value kept
IntOf(exitCode) == exitCode

\* json.Marshal(ContainerWaitOKBody{...}): the body's fields, and no error
\* (a struct of an int and a string always marshals)
Marshal(body) == [buffer |-> body, err |-> Nil]

waitContainer_lookup(r, lk) ==
    IF lk.err # Nil
    THEN Done(r, Error(Sprintf("No such container: ", Str(r.name), ""), 404, lk.err))
    ELSE [r EXCEPT !.pc = "op"]

\* waitContainer_wait with the error of con.Wait dropped
waitContainer_wait_nomsg(r, res) ==
    LET m == Marshal([StatusCode |-> IntOf(res.code), Error |-> [Message |-> ""]])
    IN  IF m.err # Nil
        THEN Done(r, Error("Something went wrong.", 500, m.err))
        ELSE Done(r, [NoResp EXCEPT !.code = 200, !.ctype = "application/json",
                                    !.json = m.buffer])

\* after con.Wait
waitContainer_wait(r, res) ==
    LET msg == IF res.err # Nil THEN ErrorText(res.err) ELSE ""
        m   == Marshal([StatusCode |-> IntOf(res.code), Error |-> [Message |-> msg]])
    IN  IF m.err # Nil
        THEN Done(r, Error("Something went wrong.", 500, m.err))
        ELSE Done(r, [NoResp EXCEPT !.code = 200, !.ctype = "application/json",
                                    !.json = m.buffer])

waitContainer(i) ==
    /\ reqs[i].handler = "waitContainer"
    /\ \/ /\ reqs[i].pc = "lookup"
          /\ \E lk \in LookupAnswers(cstate) :
                Step(i, waitContainer_lookup(Log(reqs[i], LookupCall(reqs[i], lk)), lk))
          /\ UNCHANGED cstate
       \/ /\ reqs[i].pc = "op"
          /\ \E res \in WaitAnswers(cstate) :
                /\ Step(i, waitContainer_wait(
                              Log(reqs[i], Call("Wait", <<>>, cstate, res.code, res.err)), res))
                /\ Applied("Wait", res)

(***************************************************************************)
(* stopContainer: /containers/{name}/stop                                  *)
(***************************************************************************)
\* the stop the handler invokes: con.StopWithTimeout(uint(timeout)) with t,
\* con.Stop() without
stopContainer_call(r) ==
    IF Len(Get(r.form.t)) > 0
    THEN [fn |-> "StopWithTimeout", args |-> <<Uint(Atoi(Get(r.form.t)).val)>>]
    ELSE [fn |-> "Stop", args |-> <<>>]

stopContainer_lookup(r, lk) ==
    IF lk.err # Nil
    THEN Done(r, Error(Sprintf("No such container: ", Str(r.name), ""), 404, lk.err))
    ELSE [r EXCEPT !.pc = "state"]

\* stopContainer_state with the error of the state read dropped
stopContainer_state_errdropped(r, st) ==
    IF st.state = "Stopped" \/ st.state = "Exited"
    THEN Done(r, Error("Something went wrong.", 304,
              Wrapf(st.err, Sprintf("container ", Str(r.name), " is already stopped "))))
    ELSE IF Len(Get(r.form.t)) > 0 /\ Atoi(Get(r.form.t)).err # Nil
    THEN Done(r, Error("Something went wrong.", 400,
              Wrapf(Atoi(Get(r.form.t)).err,
                    Sprintf("Unable to parse parameter 't': ", Str(Get(r.form.t)), ""))))
    ELSE [r EXCEPT !.pc = "op"]

\* stopContainer_state with t parsed before the gate
stopContainer_state_parsefirst(r, st) ==
    IF st.err # Nil
    THEN Done(r, Error("Something went wrong.", 500,
              Wrapf(st.err, Sprintf("unable to get state for ", Str(r.name),
                                    " : %!s(MISSING)"))))
    ELSE IF Len(Get(r.form.t)) > 0 /\ Atoi(Get(r.form.t)).err # Nil
    THEN Done(r, Error("Something went wrong.", 400,
              Wrapf(Atoi(Get(r.form.t)).err,
                    Sprintf("Unable to parse parameter 't': ", Str(Get(r.form.t)), ""))))
    ELSE IF st.state = "Stopped" \/ st.state = "Exited"
    THEN Done(r, Error("Something went wrong.", 304,
              Wrapf(st.err, Sprintf("container ", Str(r.name), " is already stopped "))))
    ELSE [r EXCEPT !.pc = "op"]

\* after the state read: the gate, then t.  The err wrapped for the 304 is
\* the state read's, which is nil there.
stopContainer_state(r, st) ==
    IF st.err # Nil
    THEN Done(r, Error("Something went wrong.", 500,
              Wrapf(st.err, Sprintf("unable to get state for ", Str(r.name),
                                    " : %!s(MISSING)"))))
    ELSE IF st.state = "Stopped" \/ st.state = "Exited"
    THEN Done(r, Error("Something went wrong.", 304,
              Wrapf(st.err, Sprintf("container ", Str(r.name), " is already stopped "))))
    ELSE IF Len(Get(r.form.t)) > 0 /\ Atoi(Get(r.form.t)).err # Nil
    THEN Done(r, Error("Something went wrong.", 400,
              Wrapf(Atoi(Get(r.form.t)).err,
                    Sprintf("Unable to parse parameter 't': ", Str(Get(r.form.t)), ""))))
    ELSE [r EXCEPT !.pc = "op"]

\* stopContainer_stop testing err, the state read's, in place of stopError
stopContainer_stop_wrongerr(r, res) ==
    LET err == ErrOf(r, "State")
    IN  IF err # Nil
        THEN Done(r, Error("Something went wrong.", 500,
                  Wrapf(err, Sprintf("failed to stop ", Str(r.name), ""))))
        ELSE Done(r, NoContent)

\* after con.Stop or con.StopWithTimeout: stopError decides, and the err
\* wrapped is still the state read's
stopContainer_stop(r, res) ==
    LET stopError == res.err
        err       == ErrOf(r, "State")
    IN  IF stopError # Nil
        THEN Done(r, Error("Something went wrong.", 500,
                  Wrapf(err, Sprintf("failed to stop ", Str(r.name), ""))))
        ELSE Done(r, NoContent)

stopContainer(i) ==
    /\ reqs[i].handler = "stopContainer"
    /\ \/ /\ reqs[i].pc = "lookup"
          /\ \E lk \in LookupAnswers(cstate) :
                Step(i, stopContainer_lookup(Log(reqs[i], LookupCall(reqs[i], lk)), lk))
          /\ UNCHANGED cstate
       \/ /\ reqs[i].pc = "state"
          /\ \E st \in StateAnswers(cstate) :
                Step(i, stopContainer_state(Log(reqs[i], StateCall(st)), st))
          /\ UNCHANGED cstate
       \/ /\ reqs[i].pc = "op"
          /\ \E res \in OpAnswers(cstate) :
                /\ Step(i, stopContainer_stop(
                       Log(reqs[i], OpCall(stopContainer_call(reqs[i]).fn,
                                           stopContainer_call(reqs[i]).args, res)),
                       res))
                /\ Applied(stopContainer_call(reqs[i]).fn, res)

(***************************************************************************)
(* pauseContainer, unpauseContainer                                        *)
(***************************************************************************)
pauseContainer_lookup(r, lk) ==
    IF lk.err # Nil
    THEN Done(r, Error(Sprintf("No such container: ", Str(r.name), ""), 404, lk.err))
    ELSE [r EXCEPT !.pc = "op"]

\* pauseContainer_pause trying con.Pause again when it fails
pauseContainer_pause_retry(r, res) ==
    IF res.err # Nil
    THEN IF Len(r.calls) < 3 THEN [r EXCEPT !.pc = "op"]
         ELSE Done(r, Error("Something went wrong.", 500, res.err))
    ELSE Done(r, NoContent)

\* after con.Pause
pauseContainer_pause(r, res) ==
    IF res.err # Nil
    THEN Done(r, Error("Something went wrong.", 500, res.err))
    ELSE Done(r, NoContent)

pauseContainer(i) ==
    /\ reqs[i].handler = "pauseContainer"
    /\ \/ /\ reqs[i].pc = "lookup"
          /\ \E lk \in LookupAnswers(cstate) :
                Step(i, pauseContainer_lookup(Log(reqs[i], LookupCall(reqs[i], lk)), lk))
          /\ UNCHANGED cstate
       \/ /\ reqs[i].pc = "op"
          /\ \E res \in OpAnswers(cstate) :
                /\ Step(i, pauseContainer_pause(
                       Log(reqs[i], OpCall("Pause",
                                           <<>>, res)),
                       res))
                /\ Applied("Pause", res)

unpauseContainer_lookup(r, lk) ==
    IF lk.err # Nil
    THEN Done(r, Error(Sprintf("No such container: ", Str(r.name), ""), 404, lk.err))
    ELSE [r EXCEPT !.pc = "op"]


\* unpauseContainer_unpause taking a failed Unpause for a conflict
unpauseContainer_unpause_conflict(r, res) ==
    IF res.err # Nil
    THEN Done(r, Error("Something went wrong.", 409, res.err))
    ELSE Done(r, NoContent)

\* after con.Unpause
unpauseContainer_unpause(r, res) ==
    IF res.err # Nil
    THEN Done(r, Error("Something went wrong.", 500, res.err))
    ELSE Done(r, NoContent)

unpauseContainer(i) ==
    /\ reqs[i].handler = "unpauseContainer"
    /\ \/ /\ reqs[i].pc = "lookup"
          /\ \E lk \in LookupAnswers(cstate) :
                Step(i, unpauseContainer_lookup(Log(reqs[i], LookupCall(reqs[i], lk)), lk))
          /\ UNCHANGED cstate
       \/ /\ reqs[i].pc = "op"
          /\ \E res \in OpAnswers(cstate) :
                /\ Step(i, unpauseContainer_unpause(
                       Log(reqs[i], OpCall("Unpause",
                                           <<>>, res)),
                       res))
                /\ Applied("Unpause", res)

(***************************************************************************)
(* restartContainer: /containers/{name}/restart                            *)
(***************************************************************************)

\* restartContainer_args with the parsed t never assigned to timeout
restartContainer_args_own(r) == << StopTimeout >>

\* the timeout handed to con.RestartWithTimeout: uint(t) with t, the
\* container's own without
restartContainer_args(r) ==
    << IF Len(Get(r.form.t)) > 0 THEN Uint(Atoi(Get(r.form.t)).val) ELSE StopTimeout >>

restartContainer_lookup(r, lk) ==
    IF lk.err # Nil
    THEN Done(r, Error(Sprintf("No such container: ", Str(r.name), ""), 404, lk.err))
    ELSE [r EXCEPT !.pc = "state"]

\* restartContainer_state with the error of Atoi dropped (t, _ := ...)
restartContainer_state_unchecked(r, st) ==
    LET msg == Sprintf("Container ", Str(r.name), " is not running")
        r2  == Log(r, Call("StopTimeout", <<>>, "", StopTimeout, Nil))
    IN  IF st.err # Nil
        THEN Done(r, Error("Something went wrong.", 500, st.err))
        ELSE IF st.state = "Stopped" \/ st.state = "Exited"
        THEN Done(r, Error(msg, 409, New(msg)))
        ELSE [r2 EXCEPT !.pc = "op"]

\* after the state read: the gate, then con.StopTimeout() and t
restartContainer_state(r, st) ==
    LET msg == Sprintf("Container ", Str(r.name), " is not running")
        r2  == Log(r, Call("StopTimeout", <<>>, "", StopTimeout, Nil))
    IN  IF st.err # Nil
        THEN Done(r, Error("Something went wrong.", 500, st.err))
        ELSE IF st.state = "Stopped" \/ st.state = "Exited"
        THEN Done(r, Error(msg, 409, New(msg)))
        ELSE IF Len(Get(r.form.t)) > 0 /\ Atoi(Get(r.form.t)).err # Nil
        THEN Done(r2, Error("Something went wrong.", 400,
                  Wrapf(Atoi(Get(r.form.t)).err,
                        Sprintf("Unable to parse parameter 't': ", Str(Get(r.form.t)), ""))))
        ELSE [r2 EXCEPT !.pc = "op"]


\* restartContainer_restart reading the state again when the restart fails
restartContainer_restart_reread(r, res) ==
    IF res.err # Nil
    THEN IF Len(r.calls) < 5 THEN [r EXCEPT !.pc = "state"]
         ELSE Done(r, Error("Something went wrong.", 500, res.err))
    ELSE Done(r, NoContent)

\* after con.RestartWithTimeout
restartContainer_restart(r, res) ==
    IF res.err # Nil
    THEN Done(r, Error("Something went wrong.", 500, res.err))
    ELSE Done(r, NoContent)

restartContainer(i) ==
    /\ reqs[i].handler = "restartContainer"
    /\ \/ /\ reqs[i].pc = "lookup"
          /\ \E lk \in LookupAnswers(cstate) :
                Step(i, restartContainer_lookup(Log(reqs[i], LookupCall(reqs[i], lk)), lk))
          /\ UNCHANGED cstate
       \/ /\ reqs[i].pc = "state"
          /\ \E st \in StateAnswers(cstate) :
                Step(i, restartContainer_state(Log(reqs[i], StateCall(st)), st))
          /\ UNCHANGED cstate
       \/ /\ reqs[i].pc = "op"
          /\ \E res \in OpAnswers(cstate) :
                /\ Step(i, restartContainer_restart(
                       Log(reqs[i], OpCall("RestartWithTimeout",
                                           restartContainer_args(reqs[i]), res)),
                       res))
                /\ Applied("RestartWithTimeout", res)

(***************************************************************************)
(* The container changes without the handlers.                             *)
(***************************************************************************)
External ==
    /\ cstate' \in ExternalNext(cstate)
    /\ UNCHANGED reqs

(***************************************************************************)
(* The specification.                                                      *)
(***************************************************************************)
Init ==
    /\ cstate \in States \cup {Absent}
    /\ reqs = [i \in Reqs |-> Idle]

Next ==
    \/ \E i \in Reqs :
          \/ Request(i)
          \/ Return(i)
          \/ container(i)
          \/ killContainer(i)
          \/ waitContainer(i)
          \/ stopContainer(i)
          \/ pauseContainer(i)
          \/ unpauseContainer(i)
          \/ restartContainer(i)
    \/ External

Spec == Init /\ [][Next]_vars

(***************************************************************************)
(* What the properties speak of.                                           *)
(***************************************************************************)
\* the runtime operations a request is for
OpFns ==
    {"Kill", "Stop", "StopWithTimeout", "Pause", "Unpause", "RestartWithTimeout",
     "Wait", "RemoveContainer"}

\* the calls of the request, of these functions, in order of their making
CallsOf(r, fns) == SelectSeq(r.calls, LAMBDA c : c.fn \in fns)

\* every runtime call after the lookup
AfterLookup(r) == CallsOf(r, OpFns \cup {"State", "StopTimeout"})

\* the lookup of the request has been made, and has failed / has resolved
LookupFailed(r) == Len(r.calls) > 0 /\ r.calls[1].err # Nil
Resolved(r)     == Len(r.calls) > 0 /\ r.calls[1].err = Nil

\* the state read of the request has been made and has returned a state in ss
StateRead(r, ss) ==
    \E k \in 1..Len(r.calls) :
        r.calls[k].fn = "State" /\ r.calls[k].err = Nil /\ r.calls[k].state \in ss

\* the state read of the request has been made and has failed
StateFailed(r) ==
    \E k \in 1..Len(r.calls) : r.calls[k].fn = "State" /\ r.calls[k].err # Nil

\* the response has been written
Answered(r) == r.pc = "done"

\* ---- C1 ----
\* C1: a request whose LookupContainer fails is answered 404, and the lookup
\* is the only runtime call it makes: no State, Kill, Stop, StopWithTimeout,
\* Pause, Unpause, RestartWithTimeout, Wait or RemoveContainer, whatever the
\* handler, the verb and the parameters.
C1_UnknownReferenceIs404 ==
    \A i \in Reqs :
        LookupFailed(reqs[i]) =>
            /\ Answered(reqs[i])
            /\ reqs[i].resp.code = 404
            /\ Len(reqs[i].calls) = 1
            /\ AfterLookup(reqs[i]) = <<>>

\* C1 happens: a stop with a malformed t on an unknown reference has been
\* answered, while a second request on the same reference is in flight
C1_Witness ==
    /\ reqs["g1"].handler = "stopContainer"
    /\ Get(reqs["g1"].form.t) = <<"a","b","c">>
    /\ LookupFailed(reqs["g1"])
    /\ Answered(reqs["g1"])
    /\ reqs["g2"].handler = "container"
    /\ LookupFailed(reqs["g2"])
\* ---- C2 ----
\* C2: a kill or a restart whose state read returns Stopped or Exited is
\* answered 409, and makes no runtime call after the read: no Kill and no
\* RestartWithTimeout, whatever signal or t it carries.
C2_KillRestartOnStoppedIs409 ==
    \A i \in Reqs :
        (/\ reqs[i].handler \in {"killContainer", "restartContainer"}
         /\ StateRead(reqs[i], StoppedStates))
        => /\ Answered(reqs[i])
           /\ reqs[i].resp.code = 409
           /\ CallsOf(reqs[i], OpFns \cup {"StopTimeout"}) = <<>>

\* C2 happens: a kill with an unknown signal name has read Exited and has
\* been answered
C2_Witness ==
    /\ reqs["g1"].handler = "killContainer"
    /\ Get(reqs["g1"].form.signal) = <<"S","I","G","F","O","O">>
    /\ StateRead(reqs["g1"], {"Exited"})
    /\ Answered(reqs["g1"])

IsInteger(s) ==
    LET ds == IF s # <<>> /\ s[1] \in {"+", "-"} THEN Tail(s) ELSE s
    IN  /\ ds # <<>>
        /\ \A k \in 1..Len(ds) : ds[k] \in {"0","1","2","3","4","5","6","7","8","9"}

\* the request carries a t whose value is no integer (a t sent with an empty
\* value reads as no t, as r.Form.Get gives the empty string for both)
CarriesNonIntegerT(r) == Get(r.form.t) # <<>> /\ ~ IsInteger(Get(r.form.t))

\* C4 as claimed: a stop or restart that carries a non-integer t is answered
\* 400 in every lifecycle state its state read returns, and never invokes
\* StopWithTimeout or RestartWithTimeout.
C4_AsClaimed ==
    \A i \in Reqs :
        (/\ reqs[i].handler \in {"stopContainer", "restartContainer"}
         /\ CarriesNonIntegerT(reqs[i])
         /\ StateRead(reqs[i], States)
         /\ Answered(reqs[i]))
        => /\ reqs[i].resp.code = 400
           /\ CallsOf(reqs[i], {"StopWithTimeout", "RestartWithTimeout"}) = <<>>

\* C4, amended: a stop or restart that carries a non-integer t never invokes
\* Stop, StopWithTimeout or RestartWithTimeout; it is answered 400 when its
\* state read returns Created, Running, Paused or Unknown, and by the gate
\* (304 for stop, 409 for restart) when it returns Stopped or Exited.
C4_MalformedTimeout ==
    \A i \in Reqs :
        (/\ reqs[i].handler \in {"stopContainer", "restartContainer"}
         /\ CarriesNonIntegerT(reqs[i]))
        => /\ CallsOf(reqs[i], OpFns) = <<>>
           /\ StateRead(reqs[i], States \ StoppedStates)
                 => Answered(reqs[i]) /\ reqs[i].resp.code = 400
           /\ StateRead(reqs[i], StoppedStates)
                 => /\ Answered(reqs[i])
                    /\ reqs[i].resp.code =
                          IF reqs[i].handler = "stopContainer" THEN 304 ELSE 409

\* C4 happens: a restart with t=abc has read Paused and has been answered
C4_Witness ==
    /\ reqs["g1"].handler = "restartContainer"
    /\ Get(reqs["g1"].form.t) = <<"a","b","c">>
    /\ StateRead(reqs["g1"], {"Paused"})
    /\ Answered(reqs["g1"])
\* ---- C5 ----
\* the value is sent, and is none of the spellings of a boolean (a value sent
\* empty reads as not sent, as r.Form.Get gives the empty string for both)
NotABoolean(vs) == Get(vs) # <<>> /\ Get(vs) \notin TrueStrs \cup FalseStrs

\* C5: a DELETE on the JSON resource of a resolvable container whose force,
\* or whose v, is not a boolean is answered 400 and never invokes
\* RemoveContainer, whatever the other parameters are.
C5_MalformedBoolean ==
    \A i \in Reqs :
        (/\ reqs[i].handler = "container"
         /\ reqs[i].method = "DELETE"
         /\ Resolved(reqs[i])
         /\ NotABoolean(reqs[i].form.force) \/ NotABoolean(reqs[i].form.v))
        => /\ Answered(reqs[i])
           /\ reqs[i].resp.code = 400
           /\ AfterLookup(reqs[i]) = <<>>

\* C5 happens: a DELETE with force=1 and v=x, and no link, on a resolvable
\* container has been answered
C5_Witness ==
    /\ reqs["g1"].handler = "container"
    /\ reqs["g1"].method = "DELETE"
    /\ Get(reqs["g1"].form.force) = <<"1">>
    /\ Get(reqs["g1"].form.v) = <<"x">>
    /\ reqs["g1"].form.link = NoVal
    /\ Resolved(reqs["g1"])
    /\ Answered(reqs["g1"])

\* ---- C6 ----
\* C6 as claimed: a DELETE on the JSON resource of a resolvable container
\* that carries link is answered 400 and never invokes RemoveContainer, for
\* every value of link, the empty one included, and every force and v.
C6_AsClaimed ==
    \A i \in Reqs :
        (/\ reqs[i].handler = "container"
         /\ reqs[i].method = "DELETE"
         /\ Resolved(reqs[i])
         /\ reqs[i].form.link # NoVal
         /\ Answered(reqs[i]))
        => /\ reqs[i].resp.code = 400
           /\ CallsOf(reqs[i], {"RemoveContainer"}) = <<>>

\* ---- C7 ----
\* the handlers that answer 204, and the runtime operation of each
Mutating == Handlers \ {"waitContainer"}
OpsOf(h) ==
    CASE h = "container" -> {"RemoveContainer"}
      [] h = "killContainer" -> {"Kill"}
      [] h = "stopContainer" -> {"Stop", "StopWithTimeout"}
      [] h = "pauseContainer" -> {"Pause"}
      [] h = "unpauseContainer" -> {"Unpause"}
      [] h = "restartContainer" -> {"RestartWithTimeout"}
      [] OTHER -> {"Wait"}

\* C7: kill, stop, pause, unpause, restart and remove answer 204 exactly when
\* the request has invoked its runtime operation once and the operation has
\* succeeded; the body of a 204 is one empty line.
C7_NoContentIffOperationSucceeded ==
    \A i \in Reqs :
        (reqs[i].handler \in Mutating /\ Answered(reqs[i]))
        => LET ops == CallsOf(reqs[i], OpFns)
           IN  /\ reqs[i].resp.code = 204
                    <=> /\ Len(ops) = 1
                        /\ ops[1].fn \in OpsOf(reqs[i].handler)
                        /\ ops[1].err = Nil
               /\ reqs[i].resp.code = 204
                    => /\ reqs[i].resp.body = <<"">>
                       /\ reqs[i].resp.msg = ""
                       /\ reqs[i].resp.cause = Nil

\* C7 happens: a stop with t=1 has been answered after StopWithTimeout failed,
\* and a stop without t after Stop succeeded
C7_Witness ==
    /\ reqs["g1"].handler = "stopContainer"
    /\ Answered(reqs["g1"])
    /\ LET ops == CallsOf(reqs["g1"], {"StopWithTimeout"})
       IN  Len(ops) = 1 /\ ops[1].err # Nil
    /\ reqs["g2"].handler = "stopContainer"
    /\ Answered(reqs["g2"])
    /\ LET ops == CallsOf(reqs["g2"], {"Stop"})
       IN  Len(ops) = 1 /\ ops[1].err = Nil

\* ---- C8 ----
\* C8: a wait on a resolvable container makes no state read and invokes Wait
\* once; it answers 200 with the exit code Wait returned as StatusCode, and
\* with an Error.Message that is empty exactly when Wait returned no error
\* and is the error's non-empty text otherwise.
C8_WaitBody ==
    \A i \in Reqs :
        (reqs[i].handler = "waitContainer" /\ Resolved(reqs[i]))
        => /\ CallsOf(reqs[i], {"State"}) = <<>>
           /\ ~ Answered(reqs[i]) => reqs[i].pc = "op" /\ Len(reqs[i].calls) = 1
           /\ Answered(reqs[i])
                => LET w == CallsOf(reqs[i], OpFns)
                       b == reqs[i].resp.json
                   IN  /\ Len(w) = 1 /\ w[1].fn = "Wait"
                       /\ reqs[i].resp.code = 200
                       /\ b.StatusCode = w[1].code
                       /\ b.Error.Message = "" <=> w[1].err = Nil
                       /\ w[1].err # Nil
                            => b.Error.Message = "container state improper"

\* C8 happens: a wait has been answered after Wait returned an error
C8_Witness ==
    /\ reqs["g1"].handler = "waitContainer"
    /\ Answered(reqs["g1"])
    /\ \E k \in 1..Len(reqs["g1"].calls) :
          reqs["g1"].calls[k].fn = "Wait" /\ reqs["g1"].calls[k].err # Nil

\* ---- C9 ----
\* C9: a kill, a stop or a restart whose state read fails is answered 500,
\* makes no Kill, Stop, StopWithTimeout or RestartWithTimeout call, and
\* reads the state no second time.
C9_StateFailureIs500 ==
    \A i \in Reqs :
        (/\ reqs[i].handler \in {"killContainer", "stopContainer", "restartContainer"}
         /\ StateFailed(reqs[i]))
        => /\ Answered(reqs[i])
           /\ reqs[i].resp.code = 500
           /\ CallsOf(reqs[i], OpFns) = <<>>
           /\ Len(CallsOf(reqs[i], {"State"})) = 1

\* C9 happens: a stop with t=1 has been answered after its state read failed
\* on a container that is there
C9_Witness ==
    /\ reqs["g1"].handler = "stopContainer"
    /\ Get(reqs["g1"].form.t) = <<"1">>
    /\ StateFailed(reqs["g1"])
    /\ Answered(reqs["g1"])
    /\ cstate = "Running"

\* ---- C10 ----
\* the runtime operation of the request has failed
OperationFailed(r) ==
    \E k \in 1..Len(r.calls) : r.calls[k].fn \in OpFns /\ r.calls[k].err # Nil

\* C10: when the runtime operation of a kill, stop, pause, unpause, restart
\* or remove fails, the request is answered 500 and the operation is not
\* invoked again.
C10_OperationFailureIs500 ==
    \A i \in Reqs :
        (reqs[i].handler \in Mutating /\ OperationFailed(reqs[i]))
        => /\ Answered(reqs[i])
           /\ reqs[i].resp.code = 500
           /\ Len(CallsOf(reqs[i], OpFns)) = 1

\* C10 happens: a restart with t=0 has been answered after RestartWithTimeout
\* failed
C10_Witness ==
    /\ reqs["g1"].handler = "restartContainer"
    /\ Get(reqs["g1"].form.t) = <<"0">>
    /\ OperationFailed(reqs["g1"])
    /\ Answered(reqs["g1"])

\* ---- C11 ----
\* the request is for a runtime operation: every request but one on the JSON
\* resource with a verb other than DELETE
ForOperation(r) == r.handler = "container" => r.method = "DELETE"

\* the handlers that read the state and gate on it
Gated == {"killContainer", "stopContainer", "restartContainer"}

\* the parameters the handler of the request reads all validate
ParamsValid(r) ==
    CASE r.handler = "container" ->
            /\ ~ NotABoolean(r.form.force)
            /\ ~ NotABoolean(r.form.v)
            /\ Get(r.form.link) = <<>>
      [] r.handler = "killContainer" ->
            Get(r.form.signal) = <<>> \/ ParseSignal(Get(r.form.signal)).err = Nil
      [] r.handler \in {"stopContainer", "restartContainer"} ->
            Get(r.form.t) = <<>> \/ IsInteger(Get(r.form.t))
      [] OTHER -> TRUE

\* lookup, state gate and parameter validation of the request have all passed
AllPassed(r) ==
    /\ Resolved(r)
    /\ ForOperation(r)
    /\ r.handler \in Gated => StateRead(r, States \ StoppedStates)
    /\ ParamsValid(r)

\* C11: a request reads the container's state at most once and makes at most
\* one operation call (Kill, Stop, StopWithTimeout, Pause, Unpause,
\* RestartWithTimeout, Wait, RemoveContainer); once lookup, state gate and
\* parameter validation have all passed, the answered request has made
\* exactly one, and an unanswered one is about to make it.
C11_OneStateReadOneOperation ==
    \A i \in Reqs :
        /\ Len(CallsOf(reqs[i], {"State"})) <= 1
        /\ Len(CallsOf(reqs[i], OpFns)) <= 1
        /\ AllPassed(reqs[i])
              => IF Answered(reqs[i])
                 THEN /\ Len(CallsOf(reqs[i], OpFns)) = 1
                      /\ CallsOf(reqs[i], OpFns)[1].fn \in OpsOf(reqs[i].handler)
                 ELSE reqs[i].pc = "op" /\ CallsOf(reqs[i], OpFns) = <<>>

\* C11 happens: a restart with t=1 that read Running has been answered after
\* its one RestartWithTimeout, while a stop has read the state and has its
\* Stop still to make
C11_Witness ==
    /\ reqs["g1"].handler = "restartContainer"
    /\ Get(reqs["g1"].form.t) = <<"1">>
    /\ AllPassed(reqs["g1"])
    /\ Answered(reqs["g1"])
    /\ Len(CallsOf(reqs["g1"], {"RestartWithTimeout"})) = 1
    /\ reqs["g2"].handler = "stopContainer"
    /\ AllPassed(reqs["g2"])
    /\ reqs["g2"].pc = "op"

\* ---- C12 ----
\* C12: a request on the JSON resource of a resolvable container with a verb
\* other than DELETE is answered 500 with the error "<verb> is not
\* implemented for containers", and makes no runtime call after the lookup
\* (no RemoveContainer), whatever force, v and link it carries: they are not
\* parsed.
C12_OtherVerbIs500 ==
    \A i \in Reqs :
        (/\ reqs[i].handler = "container"
         /\ reqs[i].method # "DELETE"
         /\ Resolved(reqs[i]))
        => /\ Answered(reqs[i])
           /\ reqs[i].resp.code = 500
           /\ reqs[i].resp.msg = "Something went wrong."
           /\ reqs[i].resp.cause # Nil
           /\ ErrorText(reqs[i].resp.cause)
                  = reqs[i].method \o " is not implemented for containers"
           /\ AfterLookup(reqs[i]) = <<>>

\* C12 happens: a GET with force=no and link=1 on a resolvable container has
\* been answered
C12_Witness ==
    /\ reqs["g1"].handler = "container"
    /\ reqs["g1"].method = "GET"
    /\ Get(reqs["g1"].form.force) = <<"n","o">>
    /\ Get(reqs["g1"].form.link) = <<"1">>
    /\ Resolved(reqs["g1"])
    /\ Answered(reqs["g1"])

\* ---- C13 ----
\* the text is an unsigned integer: one decimal digit or more
IsUnsigned(s) ==
    /\ s # <<>>
    /\ \A k \in 1..Len(s) : s[k] \in {"0","1","2","3","4","5","6","7","8","9"}

\* the operation calls of the request are this one call, once it is answered,
\* and none before
OnlyCall(r, fn, args) ==
    LET ops == CallsOf(r, OpFns)
    IN  IF Answered(r)
        THEN Len(ops) = 1 /\ ops[1].fn = fn /\ ops[1].args = args
        ELSE ops = <<>>

\* C13: for a stop or restart on a resolvable container whose state read
\* returns a state other than Stopped and Exited: a stop without t invokes
\* Stop() and never StopWithTimeout; a stop with an unsigned integer t invokes
\* StopWithTimeout(t) and never Stop; a restart without t invokes
\* RestartWithTimeout with the container's StopTimeout(); a restart with an
\* unsigned integer t invokes RestartWithTimeout(t); each answers 204 when the
\* call succeeds.
C13_TimeoutSelection ==
    \A i \in Reqs :
        LET r == reqs[i]
            t == Get(r.form.t)
        IN  (/\ r.handler \in {"stopContainer", "restartContainer"}
             /\ StateRead(r, States \ StoppedStates)
             /\ t = <<>> \/ IsUnsigned(t))
            => /\ OnlyCall(r,
                     IF r.handler = "restartContainer" THEN "RestartWithTimeout"
                     ELSE IF t = <<>> THEN "Stop" ELSE "StopWithTimeout",
                     IF t # <<>> THEN <<DecValue(t)>>
                     ELSE IF r.handler = "restartContainer" THEN <<StopTimeout>>
                     ELSE <<>>)
               /\ (r.handler = "restartContainer" /\ t = <<>>)
                     => /\ Len(CallsOf(r, {"StopTimeout"})) = 1
                        /\ CallsOf(r, {"StopTimeout"})[1].code = StopTimeout
               /\ (Answered(r) /\ ~ OperationFailed(r)) => r.resp.code = 204

\* C13 happens: a restart with t=1 that read Paused has invoked
\* RestartWithTimeout(1) and been answered 204, and a stop without t has
\* invoked Stop() and been answered 204
C13_Witness ==
    /\ reqs["g1"].handler = "restartContainer"
    /\ Get(reqs["g1"].form.t) = <<"1">>
    /\ StateRead(reqs["g1"], {"Paused"})
    /\ CallsOf(reqs["g1"], OpFns) # <<>>
    /\ CallsOf(reqs["g1"], OpFns)[1].args = <<1>>
    /\ reqs["g1"].resp.code = 204
    /\ reqs["g2"].handler = "stopContainer"
    /\ CallsOf(reqs["g2"], {"Stop"}) # <<>>
    /\ reqs["g2"].resp.code = 204

\* ---- C14 ----
\* the boolean a parameter stands for: false when it is not sent
BoolOf(vs) == Get(vs) \in TrueStrs

\* C14: a DELETE on the JSON resource of a resolvable container, without link
\* and with force and v booleans or absent, reads no state and passes no
\* gate: straight after the lookup it invokes RemoveContainer, once, with
\* force and volumes the booleans of force and v (false when absent), and
\* answers 204 when the removal succeeds.
C14_RemoveArguments ==
    \A i \in Reqs :
        LET r == reqs[i]
        IN  (/\ r.handler = "container"
             /\ r.method = "DELETE"
             /\ Resolved(r)
             /\ r.form.link = NoVal
             /\ ~ NotABoolean(r.form.force)
             /\ ~ NotABoolean(r.form.v))
            => /\ CallsOf(r, {"State", "StopTimeout"}) = <<>>
               /\ OnlyCall(r, "RemoveContainer", <<BoolOf(r.form.force), BoolOf(r.form.v)>>)
               /\ ~ Answered(r) => r.pc = "op"
               /\ (Answered(r) /\ ~ OperationFailed(r)) => r.resp.code = 204

\* C14 happens: a DELETE with force=false and v=true has invoked
\* RemoveContainer(false, true) and been answered 204
C14_Witness ==
    /\ reqs["g1"].handler = "container"
    /\ reqs["g1"].method = "DELETE"
    /\ Get(reqs["g1"].form.force) = <<"f","a","l","s","e">>
    /\ Get(reqs["g1"].form.v) = <<"t","r","u","e">>
    /\ reqs["g1"].form.link = NoVal
    /\ CallsOf(reqs["g1"], {"RemoveContainer"}) # <<>>
    /\ CallsOf(reqs["g1"], {"RemoveContainer"})[1].args = <<FALSE, TRUE>>
    /\ reqs["g1"].resp.code = 204

\* ---- C15 ----
\* C15 as claimed: t is an unsigned integer.  A stop or restart that gets as
\* far as parsing a t that is no unsigned integer (t=-1 included) is answered
\* 400 and invokes nothing; and every StopWithTimeout or RestartWithTimeout
\* invoked for a request that carries t is handed the numeric value of t.
C15_AsClaimed ==
    \A i \in Reqs :
        LET r == reqs[i]
            t == Get(r.form.t)
        IN  (r.handler \in {"stopContainer", "restartContainer"} /\ t # <<>>)
            => /\ (~ IsUnsigned(t) /\ StateRead(r, States \ StoppedStates))
                     => /\ Answered(r)
                        /\ r.resp.code = 400
                        /\ CallsOf(r, OpFns) = <<>>
               /\ \A k \in 1..Len(r.calls) :
                     r.calls[k].fn \in {"StopWithTimeout", "RestartWithTimeout"}
                        => IsUnsigned(t) /\ r.calls[k].args = <<DecValue(t)>>

\* ---- C16 ----
\* the status the first failing stage of a kill, stop or restart decides:
\* resolution, state read, gate, parameters, runtime call, in this order
StagedCode(r) ==
    IF LookupFailed(r) THEN 404
    ELSE IF StateFailed(r) THEN 500
    ELSE IF StateRead(r, StoppedStates)
         THEN IF r.handler = "stopContainer" THEN 304 ELSE 409
    ELSE IF ~ ParamsValid(r) THEN 400
    ELSE IF OperationFailed(r) THEN 500
    ELSE 204

\* the runtime calls of the request, by name, in order of their making
FnsOf(r) == [k \in 1..Len(r.calls) |-> r.calls[k].fn]

\* s is the first Len(s) elements of t
IsPrefix(s, t) == Len(s) <= Len(t) /\ s = SubSeq(t, 1, Len(s))

Wraps(err, cause) ==
    /\ Len(cause) <= Len(err)
    /\ SubSeq(err, Len(err) - Len(cause) + 1, Len(err)) = cause

\* the error of the parameter the handler of the request fails to parse, nil
\* when it parses them all
ParseError(r) ==
    CASE r.handler = "container" ->
            IF NotABoolean(r.form.force) THEN ParseBool(Get(r.form.force)).err
            ELSE IF NotABoolean(r.form.v) THEN ParseBool(Get(r.form.v)).err
            ELSE Nil
      [] r.handler = "killContainer" ->
            IF Get(r.form.signal) # <<>> THEN ParseSignal(Get(r.form.signal)).err
            ELSE Nil
      [] r.handler \in {"stopContainer", "restartContainer"} ->
            IF Get(r.form.t) # <<>> THEN Atoi(Get(r.form.t)).err ELSE Nil
      [] OTHER -> Nil

\* C17 as claimed: every error response carries its cause.  When a request is
\* answered with an error status because its last runtime call (State, Kill,
\* Stop, StopWithTimeout, Pause, Unpause, RestartWithTimeout,
\* RemoveContainer) returned an error, or with 400 because a parameter failed
\* to parse, the error handed to Error is not nil and wraps that very error;
\* so a failed Stop or StopWithTimeout gives a 500 whose cause is the stop
\* error.
C17_AsClaimed ==
    \A i \in Reqs :
        LET r    == reqs[i]
            last == r.calls[Len(r.calls)]
        IN  (/\ r.handler \in Mutating
             /\ Answered(r)
             /\ r.resp.code \notin {200, 204})
            => /\ (last.fn # "LookupContainer" /\ last.err # Nil)
                     => r.resp.cause # Nil /\ Wraps(r.resp.cause, last.err)
               /\ (r.resp.code = 400 /\ ParseError(r) # Nil)
                     => r.resp.cause # Nil /\ Wraps(r.resp.cause, ParseError(r))

\* ---- C18 ----
\* C18: a kill on a resolvable container whose state read returns a state
\* other than Stopped and Exited invokes Kill, once, with the signal parsed
\* from the parameter signal, a number or a name, and with SIGKILL when no
\* signal is sent; with a signal that is not recognized it is answered 400
\* and Kill is never invoked.
C18_KillSignal ==
    \A i \in Reqs :
        LET r   == reqs[i]
            raw == Get(r.form.signal)
        IN  (r.handler = "killContainer" /\ StateRead(r, States \ StoppedStates))
            => IF raw = <<>> THEN OnlyCall(r, "Kill", <<SIGKILL>>)
               ELSE IF ParseSignal(raw).err = Nil
               THEN /\ OnlyCall(r, "Kill", <<ParseSignal(raw).val>>)
                    /\ raw = <<"1","5">> => ParseSignal(raw).val = 15
                    /\ raw = <<"s","i","g","t","e","r","m">> => ParseSignal(raw).val = 15
               ELSE /\ Answered(r)
                    /\ r.resp.code = 400
                    /\ CallsOf(r, OpFns) = <<>>

\* C18 happens: a kill with signal=sigterm has invoked Kill(15), and a kill
\* without signal has invoked Kill(9)
C18_Witness ==
    /\ reqs["g1"].handler = "killContainer"
    /\ Get(reqs["g1"].form.signal) = <<"s","i","g","t","e","r","m">>
    /\ CallsOf(reqs["g1"], {"Kill"}) # <<>>
    /\ CallsOf(reqs["g1"], {"Kill"})[1].args = <<15>>
    /\ reqs["g2"].handler = "killContainer"
    /\ CallsOf(reqs["g2"], {"Kill"}) # <<>>
    /\ CallsOf(reqs["g2"], {"Kill"})[1].args = <<9>>

\* ---- C19 ----
\* C19: pause and unpause have no gate.  On a resolvable container the
\* handler reads no state and, straight after the lookup, invokes Pause /
\* Unpause exactly once, whatever state the container is in; it answers 204
\* when the call succeeds and 500 when it fails, and a pause or unpause is
\* never answered 409 or 304.
C19_PauseUnpausePassThrough ==
    \A i \in Reqs :
        LET r == reqs[i]
        IN  r.handler \in {"pauseContainer", "unpauseContainer"}
            => /\ r.resp.code \notin {409, 304}
               /\ Resolved(r)
                    => /\ CallsOf(r, {"State", "StopTimeout"}) = <<>>
                       /\ OnlyCall(r, IF r.handler = "pauseContainer" THEN "Pause"
                                      ELSE "Unpause", <<>>)
                       /\ ~ Answered(r) => r.pc = "op"
                       /\ Answered(r)
                            => r.resp.code = IF OperationFailed(r) THEN 500 ELSE 204

\* C19 happens: a pause has been answered 500 after its Pause failed on a
\* container that is Stopped, and an unpause 204 after its Unpause succeeded
C19_Witness ==
    /\ reqs["g1"].handler = "pauseContainer"
    /\ Len(CallsOf(reqs["g1"], {"Pause"})) = 1
    /\ reqs["g1"].resp.code = 500
    /\ cstate = "Stopped"
    /\ reqs["g2"].handler = "unpauseContainer"
    /\ Len(CallsOf(reqs["g2"], {"Unpause"})) = 1
    /\ reqs["g2"].resp.code = 204

\* ---- C20 ----
\* C20: the gate is not atomic with the runtime call.  What it guarantees for
\* a kill, stop or restart is that the runtime call was preceded, in the same
\* request, by the one state read, which returned a state other than Stopped
\* and Exited; whatever the container has become since, the request is
\* answered with the call's own result, 204 or 500, never 409 or 304.  (That
\* the container can be Stopped by the time of the call is C20_Witness.)
C20_GateNotAtomic ==
    \A i \in Reqs :
        LET r == reqs[i]
        IN  r.handler \in Gated
            => \A k \in 1..Len(r.calls) :
                  r.calls[k].fn \in OpFns
                  => /\ \E j \in 1..(k - 1) :
                           /\ r.calls[j].fn = "State"
                           /\ r.calls[j].err = Nil
                           /\ r.calls[j].state \in States \ StoppedStates
                     /\ Len(CallsOf(r, {"State"})) = 1
                     /\ Answered(r)
                     /\ r.resp.code = IF r.calls[k].err = Nil THEN 204 ELSE 500

\* C20 happens: a kill read Running, a concurrent stop then completed with
\* 204, and the kill's Kill was invoked on the container the runtime by then
\* held Stopped; the kill was answered 204
C20_Witness ==
    /\ reqs["g1"].handler = "killContainer"
    /\ StateRead(reqs["g1"], {"Running"})
    /\ CallsOf(reqs["g1"], {"Kill"}) # <<>>
    /\ CallsOf(reqs["g1"], {"Kill"})[1].state = "Stopped"
    /\ reqs["g1"].resp.code = 204
    /\ reqs["g2"].handler = "stopContainer"
    /\ StateRead(reqs["g2"], {"Running"})
    /\ CallsOf(reqs["g2"], {"Stop"}) # <<>>
    /\ reqs["g2"].resp.code = 204

====
